---- MODULE Spec2Model ----
(***************************************************************************)
(* Model of apriltag_pose_estimation: the AprilTag field (core/field.py),  *)
(* the PnP solver wrapper (core/pnp.py) and the localization strategies    *)
(* (localization/strategies/*.py).                                         *)
(*                                                                         *)
(* Numeric geometry is kept symbolic: a world-frame corner is the pair     *)
(* (pose of the tag, corner index), an image corner is the pair            *)
(* (observed tag, corner index), a solver solution is its position in the  *)
(* solver's output together with its reprojection error.                   *)
(***************************************************************************)
EXTENDS Integers, Sequences, FiniteSets, TLC

VARIABLES
    field,      \* the AprilTagField object (or NoField before construction)
    fieldCtor,  \* outcome of the last AprilTagField(...) call
    gc,         \* outcome of the last AprilTagField.get_corners(...) call
    chain,      \* the strategy object under use: chain[1], its fallback chain[2], ...
    ctor,       \* outcome of the last strategy constructor call
    dets,       \* detections passed to the running / last estimate_pose call
    stack,      \* call stack of estimate_pose activations (top is the last)
    acts,       \* every estimate_pose activation of the call, in call order
    log,        \* every solve_pnp call of the call, in call order
    angleCalls, \* the values angle_producer() returned in the call, in call order
    angle,      \* the value the external angle producer returns
    result,     \* what the outermost estimate_pose returned or raised
    loc,        \* the last CameraLocalizer.estimate_pose call
    tagPoses,   \* a PerspectiveNPointStrategy.estimate_tag_pose call
    prev,       \* an earlier estimate_pose call the caller has kept to compare with
    threads,    \* the get_corners call each thread is in, on the one shared field
    comps,      \* the compositions A @ B of the last operation, in order
    cam,        \* the last CameraParameters object made, and what was done to it
    robot       \* a robot MultiTagEstimationStrategy object and its last call

vars == <<field, fieldCtor, gc, chain, ctor, dets, stack, acts, log,
          angleCalls, angle, result, loc, tagPoses, prev, threads, comps, cam,
          robot>>

----------------------------------------------------------------------------
(* Bounds *)

MaxIds == 3         \* longest argument list of get_corners
MaxDets == 2        \* longest detection sequence of one estimate call
MaxChain == 2       \* longest fallback chain constructed
RecursionLimit == 4 \* interpreter limit on the depth of the call stack

TagIds == {3, 4}            \* tag IDs that occur (as in the test cases)
CornerIdx == 1..4
Errs == {0, 1, 2}           \* reprojection errors the solver reports
CoarseErrs == {0, 1}        \* the same, told apart only as zero or not
SolutionCounts == {0, 1, 2} \* how many solutions one solver call returns
Rotations == {0, 1, 2}      \* rotations about one axis, in thirds of a turn

None == "None"
FrameNames == {None, "world", "robot"}
TagFamily == "tag36h11"
TagSize == 1

\* Sequences over S of length lo..hi
SeqsOf(S, lo, hi) == UNION {[1..n -> S] : n \in lo..hi}

IsInjective(s) == \A i, j \in 1..Len(s) : s[i] = s[j] => i = j

\* np.vstack of a list of row blocks
RECURSIVE FlattenSeq(_)
FlattenSeq(ss) == IF ss = <<>> THEN <<>> ELSE Head(ss) \o FlattenSeq(Tail(ss))

----------------------------------------------------------------------------
(* Outcomes of calls: a returned value or a raised exception *)

Returned(v) == [kind |-> "return", value |-> v, exc |-> None]
RaisedWith(e, dummy) == [kind |-> "raise", value |-> dummy, exc |-> e]
NotCalledWith(dummy) == [kind |-> "none", value |-> dummy, exc |-> None]

----------------------------------------------------------------------------
(* core/field.py *)

\* placeholder where no field object exists
NoField == [tag_size |-> 0, tag_positions |-> <<>>, tag_family |-> None,
            input_space |-> None, output_space |-> None, corners |-> <<>>]

\* A Transform giving a tag's pose in the world frame
Transform(name, inSpace, outSpace) ==
    [name |-> name, input_space |-> inSpace, output_space |-> outSpace]

\* pose.transform(corner_points.T).T: the four corners of the tag in the
\* world frame, in the order (-1,+1), (+1,+1), (+1,-1), (-1,-1)
TransformCorners(pose, tag_size) ==
    [j \in CornerIdx |-> [pose |-> pose.name, corner |-> j, size |-> tag_size]]

\* AprilTagField.__calculate_corners: one entry per tag, in dictionary order
CalculateCorners(tag_positions, tag_size) ==
    [i \in 1..Len(tag_positions) |->
        [tag_id |-> tag_positions[i].tag_id,
         points |-> TransformCorners(tag_positions[i].pose, tag_size)]]

\* the frame name the constructor derives from the poses (lines 27-28)
DerivedSpace(tag_positions, sp) ==
    IF \A i \in 1..Len(tag_positions) : tag_positions[i].pose[sp] # None
    THEN tag_positions[1].pose[sp]
    ELSE None

\* AprilTagField.__init__; tag_positions is the dictionary as the sequence
\* of its items in insertion order
AprilTagFieldInit(tag_size, tag_positions, tag_family) ==
    IF tag_positions = <<>>
    THEN \* all() of nothing is True, so next(iter(...)) runs on an empty view
         RaisedWith("StopIteration", NoField)
    ELSE LET inSp == DerivedSpace(tag_positions, "input_space")
             outSp == DerivedSpace(tag_positions, "output_space")
         IN  IF inSp # None /\ \E i \in 1..Len(tag_positions) :
                                  tag_positions[i].pose.input_space # inSp
             THEN RaisedWith("ValueError", NoField)
             ELSE IF outSp # None /\ \E i \in 1..Len(tag_positions) :
                                  tag_positions[i].pose.output_space # outSp
             THEN RaisedWith("ValueError", NoField)
             ELSE Returned([tag_size |-> tag_size,
                            tag_positions |-> tag_positions,
                            tag_family |-> tag_family,
                            input_space |-> inSp,
                            output_space |-> outSp,
                            corners |-> CalculateCorners(tag_positions, tag_size)])

\* tag IDs of the field (AprilTagField.get_tag_ids)
GetTagIds(f) == [i \in 1..Len(f.tag_positions) |-> f.tag_positions[i].tag_id]

\* AprilTagField.__getitem__ for a tag of the field
GetItem(f, t) ==
    f.tag_positions[CHOOSE i \in 1..Len(f.tag_positions) :
                        f.tag_positions[i].tag_id = t].pose

\* tag_id in field (Mapping.__contains__ through __getitem__)
InField(f, t) == \E i \in 1..Len(f.tag_positions) : f.tag_positions[i].tag_id = t

\* the cached corner blocks whose tag ID is among tag_ids, in cache order
RECURSIVE SelectCorners(_, _)
SelectCorners(corners, tag_ids) ==
    IF corners = <<>> THEN <<>>
    ELSE (IF \E k \in 1..Len(tag_ids) : tag_ids[k] = Head(corners).tag_id
          THEN <<Head(corners).points>> ELSE <<>>)
         \o SelectCorners(Tail(corners), tag_ids)

\* AprilTagField.get_corners(*tag_ids): the rows of the stacked array
GetCorners(f, tag_ids) ==
    IF tag_ids = <<>> THEN Returned(<<>>)
    ELSE LET blocks == SelectCorners(f.corners, tag_ids)
         IN  IF blocks = <<>> THEN RaisedWith("ValueError", <<>>)  \* np.vstack([])
             ELSE Returned(FlattenSeq(blocks))

\* dictionaries of tag poses: distinct tag IDs in some insertion order
TagPoses == {Transform(t, i, o) : t \in TagIds, i \in FrameNames, o \in FrameNames}
TagDicts ==
    {d \in SeqsOf([tag_id : TagIds, pose : TagPoses], 0, Cardinality(TagIds)) :
        /\ IsInjective([i \in 1..Len(d) |-> d[i].tag_id])
        /\ \A i \in 1..Len(d) : d[i].pose.name = d[i].tag_id}

\* dictionaries whose poses carry no frame names (as the test field)
PlainDicts ==
    {d \in TagDicts : \A i \in 1..Len(d) :
        d[i].pose.input_space = None /\ d[i].pose.output_space = None}

----------------------------------------------------------------------------
(* Operations on the field *)

NoGetCorners == [tag_ids |-> <<>>, out |-> NotCalledWith(<<>>)]

\* field = AprilTagField(tag_size, tag_positions, tag_family)
ConstructField(d) ==
    LET out == AprilTagFieldInit(TagSize, d, TagFamily)
    IN  /\ fieldCtor' = [out EXCEPT !.value = NoField]
        /\ field' = IF out.kind = "return" THEN out.value ELSE field
        /\ gc' = NoGetCorners
        /\ UNCHANGED <<robot, cam, comps, threads, prev, loc, tagPoses, chain, ctor, dets, stack, acts, log, angleCalls, angle, result>>

\* field.get_corners(*tag_ids)
CallGetCorners(tag_ids) ==
    /\ field # NoField
    /\ gc' = [tag_ids |-> tag_ids, out |-> GetCorners(field, tag_ids)]
    /\ UNCHANGED <<robot, cam, comps, threads, prev, loc, tagPoses, field, fieldCtor, chain, ctor, dets, stack, acts, log,
                   angleCalls, angle, result>>

----------------------------------------------------------------------------
(* core/pnp.py *)

PnPMethod == {"ITERATIVE", "AP3P", "IPPE", "SQPNP"}

\* a Pose: rt names its rotation and translation as the solver solutions it
\* is made of (problem solved, position in the solver's output, and the
\* error whose inverse weighs it, 0 for a pose taken as it is)
NoError == 0 - 1
NoAmbiguity == [has |-> FALSE, num |-> 0, den |-> 1]
Pose(rt, error) == [rt |-> rt, error |-> error, ambiguity |-> NoAmbiguity]
NoPose == Pose(<<>>, NoError)

\* results of estimate_pose
RetNone == [kind |-> "None", pose |-> NoPose, exc |-> None]
RetPose(p) == [kind |-> "pose", pose |-> p, exc |-> None]
Raise(e) == [kind |-> "raise", pose |-> NoPose, exc |-> e]
Pending == [kind |-> "pending", pose |-> NoPose, exc |-> None]

\* what cv2.solvePnPGeneric hands back: its success flag and one
\* reprojection error per solution, in the solver's order
SolverOutputs(errors) ==
    {[success |-> FALSE, errs |-> <<>>, raises |-> None]}
    \cup {[success |-> TRUE, errs |-> e, raises |-> None] :
             e \in UNION {[1..n -> errors] : n \in SolutionCounts}}

\* cv2.solvePnPGeneric rejects point arrays of different lengths with its
\* own exception
SolverRejects == [success |-> FALSE, errs |-> <<>>, raises |-> "cv2.error"]

\* solve_pnp: prob identifies the problem solved, out is the solver's output
SolvePnp(prob, out) ==
    IF out.raises # None
    THEN RaisedWith(out.raises, <<>>)
    ELSE IF ~out.success
    THEN RaisedWith("EstimationError", <<>>)
    ELSE Returned([k \in 1..Len(out.errs) |->
                      Pose(<<[prob |-> prob, sol |-> k, weight |-> 0]>>, out.errs[k])])

----------------------------------------------------------------------------
(* Strategy objects and their constructors *)

Kinds == {"LowestAmbiguity", "MultiTagPnP", "MultiTagSpecial", "Stub"}

Strategy(kind, pnp_method) == [kind |-> kind, pnp_method |-> pnp_method]
NoStrategy == Strategy(None, None)

\* mutant: the check of the method is left out
MultiTagPnP_init_any_method(fallback_kind, pnp_method) ==
    IF fallback_kind = "MultiTagPnP"
    THEN RaisedWith("TypeError", NoStrategy)
    ELSE Returned(Strategy("MultiTagPnP", pnp_method))

\* mutant: the two checks raise each other's error
MultiTagPnP_init_swapped(fallback_kind, pnp_method) ==
    IF fallback_kind = "MultiTagPnP"
    THEN RaisedWith("ValueError", NoStrategy)
    ELSE IF pnp_method = "IPPE"
    THEN RaisedWith("TypeError", NoStrategy)
    ELSE Returned(Strategy("MultiTagPnP", pnp_method))

\* MultiTagPnPEstimationStrategy.__init__; fallback_kind is the class of
\* fallback_strategy, None when no fallback is given
MultiTagPnP_init(fallback_kind, pnp_method) ==
    IF fallback_kind = "MultiTagPnP"
    THEN RaisedWith("TypeError", NoStrategy)
    ELSE IF pnp_method = "IPPE"
    THEN RaisedWith("ValueError", NoStrategy)
    ELSE Returned(Strategy("MultiTagPnP", pnp_method))

\* MultiTagSpecialEstimationStrategy.__init__
MultiTagSpecial_init(fallback_kind, pnp_method) ==
    IF fallback_kind = "MultiTagSpecial"
    THEN RaisedWith("TypeError", NoStrategy)
    ELSE Returned(Strategy("MultiTagSpecial", pnp_method))

\* LowestAmbiguityEstimationStrategy.__init__ (takes no fallback)
LowestAmbiguity_init(pnp_method) ==
    Returned(Strategy("LowestAmbiguity", pnp_method))

\* any other implementation of PoseEstimationStrategy (a test stub)
Stub_init == Returned(Strategy("Stub", None))

StrategyInit(kind, fallback_kind, pnp_method) ==
    CASE kind = "MultiTagPnP" -> MultiTagPnP_init(fallback_kind, pnp_method)
      [] kind = "MultiTagSpecial" -> MultiTagSpecial_init(fallback_kind, pnp_method)
      [] kind = "LowestAmbiguity" -> LowestAmbiguity_init(pnp_method)
      [] OTHER -> Stub_init

NoCtor == [kind |-> None, fallback_kind |-> None, pnp_method |-> None,
           out |-> NotCalledWith(NoStrategy)]

\* chain[1] = Kind(fallback_strategy=chain[1], pnp_method=...) when
\* withFallback, Kind(pnp_method=...) otherwise
Construct(kind, pnp_method, withFallback) ==
    /\ stack = <<>>
    /\ withFallback => /\ chain # <<>>
                       /\ Len(chain) < MaxChain
                       /\ kind \in {"MultiTagPnP", "MultiTagSpecial"}
    /\ (kind = "Stub") = (pnp_method = None)
    /\ LET fb == IF withFallback THEN chain[1].kind ELSE None
           out == StrategyInit(kind, fb, pnp_method)
       IN  /\ ctor' = [kind |-> kind, fallback_kind |-> fb,
                       pnp_method |-> pnp_method,
                       out |-> [out EXCEPT !.value = NoStrategy]]
           /\ chain' = IF out.kind = "return"
                       THEN <<out.value>> \o (IF withFallback THEN chain ELSE <<>>)
                       ELSE chain
    /\ UNCHANGED <<robot, cam, comps, threads, prev, loc, tagPoses, field, fieldCtor, gc, dets, stack, acts, log, angleCalls,
                   angle, result>>

----------------------------------------------------------------------------
(* Detections and the running estimate_pose call *)

\* a detection of tag t: its four image corners in the detector's order
Detection(t) ==
    [tag_id |-> t, corners |-> [j \in CornerIdx |-> [tag |-> t, corner |-> j]]]

\* (detection.tag_id for detection in detections)
TagIdsOf(ds) == [k \in 1..Len(ds) |-> ds[k].tag_id]

\* np.vstack([detection.corners for detection in detections])
ImagePoints(ds) == FlattenSeq([k \in 1..Len(ds) |-> ds[k].corners])

Frame(obj, pc, k, poses, rot) ==
    [obj |-> obj, pc |-> pc, k |-> k, poses |-> poses, rot |-> rot]
NewFrame(obj) == Frame(obj, "enter", 1, <<>>, 0)

Top == stack[Len(stack)]
Self == Top.obj

\* the activation on top of the stack runs the body of a strategy of kind
Running(kind, pc) ==
    /\ stack # <<>>
    /\ Top.pc = pc
    /\ chain[Self].kind = kind

\* what an activation does next
Fin(out) == [do |-> "finish", out |-> out, callee |-> 0, frame |-> NewFrame(0)]
CallOf(callee) == [do |-> "call", out |-> Pending, callee |-> callee, frame |-> NewFrame(0)]
Goto(frame) == [do |-> "goto", out |-> Pending, callee |-> 0, frame |-> frame]

\* every estimate_pose of the call returns or raises out: each fallback is
\* called in tail position (return self.__use_fallback_strategy(...)) and no
\* handler encloses such a call
Finish(out) ==
    /\ stack' = <<>>
    /\ result' = out
    /\ acts' = [n \in 1..Len(acts) |-> [acts[n] EXCEPT !.out = out]]

\* callee.estimate_pose(detections, field, camera_params), called by Self
CallStrategy(callee) ==
    IF Len(stack) >= RecursionLimit
    THEN Finish(Raise("RecursionError"))
    ELSE /\ stack' = Append([stack EXCEPT ![Len(stack)].pc = "wait"], NewFrame(callee))
         /\ acts' = Append(acts, [obj |-> callee, caller |-> Self,
                                  dets |-> dets, out |-> Pending])
         /\ result' = result

Apply(next) ==
    CASE next.do = "finish" -> Finish(next.out)
      [] next.do = "call" -> CallStrategy(next.callee)
      [] OTHER -> /\ stack' = [stack EXCEPT ![Len(stack)] = next.frame]
                  /\ UNCHANGED <<robot, cam, comps, threads, prev, loc, tagPoses, acts, result>>

\* the entry into strategy.estimate_pose(detections, field, camera_params)
EstimateCall(ds) ==
    /\ stack = <<>>
    /\ chain # <<>>
    /\ field # NoField
    /\ dets' = ds
    /\ stack' = <<NewFrame(1)>>
    /\ acts' = <<[obj |-> 1, caller |-> 0, dets |-> ds, out |-> Pending]>>
    /\ log' = <<>>
    /\ angleCalls' = <<>>
    /\ result' = Pending
    /\ UNCHANGED <<robot, cam, comps, threads, loc, tagPoses, field, fieldCtor, gc, chain, ctor, angle>>

\* strategy.estimate_pose(detections, field, camera_params) by the caller
Estimate(ds) == EstimateCall(ds) /\ UNCHANGED prev

----------------------------------------------------------------------------
(* The external solver within one call *)

\* the earlier solve_pnp calls of this call on the same problem
SameProblem(method, object_points, image_points) ==
    {n \in 1..Len(log) : /\ log[n].method = method
                         /\ log[n].object_points = object_points
                         /\ log[n].image_points = image_points}

Least(S) == CHOOSE n \in S : \A m \in S : n <= m

ProblemId(method, object_points, image_points) ==
    LET prior == SameProblem(method, object_points, image_points)
    IN  IF prior = {} THEN Len(log) + 1 ELSE Least(prior)

\* the outputs the solver may give: any of outputs on a new problem, the
\* same output again on a problem already solved in this call; rots are the
\* rotations of the solutions, drawn where a strategy reads them
SolverChoices(outputs, method, object_points, image_points, readsRotation) ==
    LET prior == SameProblem(method, object_points, image_points)
        outs == IF prior # {} THEN {log[Least(prior)].out}
                ELSE IF Len(object_points) # Len(image_points) THEN {SolverRejects}
                ELSE outputs
        known == {n \in prior : Len(log[n].rots) = Len(log[n].out.errs)}
    IN  UNION {
          {[out |-> o, rots |-> r] :
             r \in IF ~readsRotation THEN {<<>>}
                   ELSE IF known # {} THEN {log[Least(known)].rots}
                   ELSE [1..Len(o.errs) -> Rotations]} : o \in outs}

\* the record of one solve_pnp call; actual is the caller's
\* actual_rotation_matrix (of no meaning outside Multi-Tag Special)
LogEntry(obj, method, object_points, image_points, choice) ==
    [obj |-> obj, method |-> method, object_points |-> object_points,
     image_points |-> image_points, out |-> choice.out, rots |-> choice.rots,
     actual |-> Top.rot]

----------------------------------------------------------------------------
(* localization/strategies/multitag_pnp.py *)

\* the object whose estimate_pose __use_fallback_strategy calls: line 70
\* reads self.estimate_pose(...), so it is the strategy itself
MultiTagPnP_fallback_callee(i) == i

\* mutant: the check for a missing fallback is left out, so the call is made
\* on None
MultiTagPnP_use_fallback_unguarded(i) ==
    IF i = Len(chain) THEN Fin(Raise("AttributeError"))
    ELSE CallOf(MultiTagPnP_fallback_callee(i))

\* MultiTagPnPEstimationStrategy.__use_fallback_strategy of chain[i]; the
\* fallback of chain[i] is chain[i + 1], None for the last of the chain
MultiTagPnP_use_fallback(i) ==
    IF i = Len(chain) THEN Fin(RetNone)
    ELSE CallOf(MultiTagPnP_fallback_callee(i))

\* mutant: the first candidate is composed with the last one
MultiTagPnP_pick_composed(poses) ==
    Pose(poses[1].rt \o poses[Len(poses)].rt, poses[1].error)

\* the pose estimate_pose returns out of the solver's candidates (line 64)
MultiTagPnP_pick(poses) == poses[1]

\* mutant: the guards for no detection and one detection merged into one
MultiTagPnP_estimate_pose_merged(i, ds, sp) ==
    IF Len(ds) <= 1 THEN MultiTagPnP_use_fallback(i)
    ELSE IF sp.kind = "raise" /\ sp.exc = "EstimationError"
    THEN MultiTagPnP_use_fallback(i)
    ELSE IF sp.kind = "raise" THEN Fin(Raise(sp.exc))
    ELSE IF sp.value = <<>> THEN MultiTagPnP_use_fallback(i)
    ELSE Fin(RetPose(MultiTagPnP_pick(sp.value)))

\* MultiTagPnPEstimationStrategy.estimate_pose of chain[i]; sp is what
\* solve_pnp gave (read only with two or more detections)
MultiTagPnP_estimate_pose(i, ds, sp) ==
    IF ds = <<>> THEN Fin(RetNone)
    ELSE IF Len(ds) = 1 THEN MultiTagPnP_use_fallback(i)
    ELSE IF sp.kind = "raise" /\ sp.exc = "EstimationError"
    THEN MultiTagPnP_use_fallback(i)
    ELSE IF sp.kind = "raise" THEN Fin(Raise(sp.exc))
    ELSE IF sp.value = <<>> THEN MultiTagPnP_use_fallback(i)
    ELSE Fin(RetPose(MultiTagPnP_pick(sp.value)))

MultiTagPnP_Step(outputs) ==
    /\ Running("MultiTagPnP", "enter")
    /\ IF Len(dets) < 2
       THEN /\ Apply(MultiTagPnP_estimate_pose(Self, dets, Returned(<<>>)))
            /\ log' = log
       ELSE LET method == chain[Self].pnp_method
                object_points == GetCorners(field, TagIdsOf(dets))
                image_points == ImagePoints(dets)
            IN  IF object_points.kind = "raise"
                THEN Finish(Raise(object_points.exc)) /\ log' = log
                ELSE \E c \in SolverChoices(outputs, method, object_points.value, image_points, FALSE) :
                       /\ log' = Append(log, LogEntry(Self, method, object_points.value,
                                                      image_points, c))
                       /\ Apply(MultiTagPnP_estimate_pose(Self, dets,
                             SolvePnp(ProblemId(method, object_points.value, image_points),
                                      c.out)))
    /\ UNCHANGED <<robot, cam, comps, threads, prev, loc, tagPoses, field, fieldCtor, gc, chain, ctor, dets, angleCalls, angle>>

----------------------------------------------------------------------------
(* localization/strategies/lowest_ambiguity.py *)

\* pose.with_ambiguity(num / den)
WithAmbiguity(pose, num, den) ==
    [pose EXCEPT !.ambiguity = [has |-> TRUE, num |-> num, den |-> den]]

\* the candidate kept for one tag (lines 45-49)
LowestAmbiguity_best_pose(sp) ==
    IF sp.kind = "raise" THEN RaisedWith(sp.exc, NoPose)
    ELSE IF Len(sp.value) = 1 THEN Returned(sp.value[1])
    ELSE IF Len(sp.value) = 0 THEN RaisedWith("IndexError", NoPose)
    ELSE IF sp.value[2].error = 0 THEN RaisedWith("ZeroDivisionError", NoPose)
    ELSE Returned(WithAmbiguity(sp.value[1], sp.value[1].error, sp.value[2].error))

\* key a < key b for key = ambiguity, float('inf') when it is None
AmbiguityLess(a, b) ==
    /\ a.ambiguity.has
    /\ \/ ~b.ambiguity.has
       \/ a.ambiguity.num * b.ambiguity.den < b.ambiguity.num * a.ambiguity.den

\* mutant: the first candidate is returned whatever its ambiguity
LowestAmbiguity_min_first(poses) == poses[1]

\* min(pose_candidates, key=...): the first of the minimal elements
LowestAmbiguity_min(poses) ==
    poses[Least({k \in 1..Len(poses) :
                    \A j \in 1..Len(poses) : ~AmbiguityLess(poses[j], poses[k])})]

LowestAmbiguity_Enter ==
    /\ Running("LowestAmbiguity", "enter")
    /\ Apply(IF dets = <<>> THEN Fin(RetNone)
             ELSE Goto(Frame(Self, "loop", 1, <<>>, 0)))
    /\ UNCHANGED <<robot, cam, comps, threads, prev, loc, tagPoses, field, fieldCtor, gc, chain, ctor, dets, log, angleCalls, angle>>

\* one pass of the loop over the detections
LowestAmbiguity_Iterate(outputs) ==
    /\ Running("LowestAmbiguity", "loop")
    /\ Top.k <= Len(dets)
    /\ LET method == chain[Self].pnp_method
           object_points == GetCorners(field, <<dets[Top.k].tag_id>>)
           image_points == dets[Top.k].corners
       IN  IF object_points.kind = "raise"
           THEN Finish(Raise(object_points.exc)) /\ log' = log
           ELSE \E c \in SolverChoices(outputs, method, object_points.value, image_points, FALSE) :
                  LET sp == SolvePnp(ProblemId(method, object_points.value, image_points),
                                     c.out)
                      best == LowestAmbiguity_best_pose(sp)
                  IN  /\ log' = Append(log, LogEntry(Self, method, object_points.value,
                                                     image_points, c))
                      /\ Apply(IF best.kind = "raise" THEN Fin(Raise(best.exc))
                               ELSE Goto([Top EXCEPT !.k = @ + 1,
                                                     !.poses = Append(@, best.value)]))
    /\ UNCHANGED <<robot, cam, comps, threads, prev, loc, tagPoses, field, fieldCtor, gc, chain, ctor, dets, angleCalls, angle>>

\* mutant: a call leaves the strategy with another method
LowestAmbiguity_Return_switching ==
    /\ Running("LowestAmbiguity", "loop")
    /\ Top.k > Len(dets)
    /\ Apply(IF Top.poses = <<>> THEN Fin(RetNone)
             ELSE Fin(RetPose(LowestAmbiguity_min(Top.poses))))
    /\ chain' = [chain EXCEPT ![Self].pnp_method = "SQPNP"]
    /\ UNCHANGED <<robot, cam, comps, threads, prev, loc, tagPoses, field, fieldCtor, gc, ctor, dets, log, angleCalls, angle>>

LowestAmbiguity_Return ==
    /\ Running("LowestAmbiguity", "loop")
    /\ Top.k > Len(dets)
    /\ Apply(IF Top.poses = <<>> THEN Fin(RetNone)
             ELSE Fin(RetPose(LowestAmbiguity_min(Top.poses))))
    /\ UNCHANGED <<robot, cam, comps, threads, prev, loc, tagPoses, field, fieldCtor, gc, chain, ctor, dets, log, angleCalls, angle>>

----------------------------------------------------------------------------
(* localization/strategies/multitag_special.py *)

NumRotations == Cardinality(Rotations)

\* rotation_matrix @ actual_rotation_matrix
RotMul(r, a) == (r + a) % NumRotations

\* Rotation.magnitude(): the angle of the rotation, at most half a turn
Magnitude(r) == IF 2 * r <= NumRotations THEN r ELSE NumRotations - r

\* mutant: the strategy calls its own estimate_pose
MultiTagSpecial_fallback_callee_self(i) == i

\* the object whose estimate_pose __use_fallback_strategy calls (line 98)
MultiTagSpecial_fallback_callee(i) == i + 1

\* MultiTagSpecialEstimationStrategy.__use_fallback_strategy of chain[i]
MultiTagSpecial_use_fallback(i) ==
    IF i = Len(chain) THEN Fin(RetNone)
    ELSE CallOf(MultiTagSpecial_fallback_callee(i))

\* min(pose_candidates, key=magnitude of candidate rotation @ actual): the
\* position of the first minimal candidate (lines 75-77)
MultiTagSpecial_select(rots, actual) ==
    Least({k \in 1..Len(rots) :
             \A j \in 1..Len(rots) :
                Magnitude(RotMul(rots[k], actual)) <= Magnitude(RotMul(rots[j], actual))})

\* the weighted mean of the selected poses (lines 80-87); the mean of a
\* single pose is that pose's rotation and translation
MultiTagSpecial_mean(poses) ==
    IF \E k \in 1..Len(poses) : poses[k].error = 0
    THEN Raise("ZeroDivisionError")
    ELSE IF Len(poses) = 1 THEN RetPose(Pose(poses[1].rt, NoError))
    ELSE RetPose(Pose([k \in 1..Len(poses) |->
                          [poses[k].rt[1] EXCEPT !.weight = poses[k].error]],
                      NoError))

\* mutant: the orientation is read once and for all before the first call
MultiTagSpecial_Enter_cached ==
    /\ Running("MultiTagSpecial", "enter")
    /\ IF Len(dets) < 2
       THEN /\ Apply(IF dets = <<>> THEN Fin(RetNone)
                     ELSE MultiTagSpecial_use_fallback(Self))
            /\ angleCalls' = angleCalls
       ELSE /\ Apply(Goto(Frame(Self, "loop", 1, <<>>, 0)))
            /\ angleCalls' = Append(angleCalls, angle)
    /\ UNCHANGED <<robot, cam, comps, threads, prev, loc, tagPoses, field, fieldCtor, gc, chain, ctor, dets, log, angle>>

\* the external orientation source takes a new measurement
SetAngle(a) ==
    /\ a # angle
    /\ angle' = a
    /\ UNCHANGED <<robot, cam, comps, threads, prev, loc, tagPoses, field, fieldCtor, gc, chain, ctor, dets, stack, acts, log,
                   angleCalls, result>>

MultiTagSpecial_Enter ==
    /\ Running("MultiTagSpecial", "enter")
    /\ IF Len(dets) < 2
       THEN /\ Apply(IF dets = <<>> THEN Fin(RetNone)
                     ELSE MultiTagSpecial_use_fallback(Self))
            /\ angleCalls' = angleCalls
       ELSE /\ Apply(Goto(Frame(Self, "loop", 1, <<>>, angle)))
            /\ angleCalls' = Append(angleCalls, angle)
    /\ UNCHANGED <<robot, cam, comps, threads, prev, loc, tagPoses, field, fieldCtor, gc, chain, ctor, dets, log, angle>>

\* one pass of the loop over the detections
MultiTagSpecial_Iterate(outputs) ==
    /\ Running("MultiTagSpecial", "loop")
    /\ Top.k <= Len(dets)
    /\ LET method == chain[Self].pnp_method
           object_points == GetCorners(field, <<dets[Top.k].tag_id>>)
           image_points == dets[Top.k].corners
       IN  IF object_points.kind = "raise"
           THEN Finish(Raise(object_points.exc)) /\ log' = log
           ELSE \E c \in SolverChoices(outputs, method, object_points.value, image_points, TRUE) :
                  LET sp == SolvePnp(ProblemId(method, object_points.value, image_points),
                                     c.out)
                  IN  /\ log' = Append(log, LogEntry(Self, method, object_points.value,
                                                     image_points, c))
                      /\ Apply(IF sp.kind = "raise" /\ sp.exc = "EstimationError"
                               THEN Goto([Top EXCEPT !.k = @ + 1])
                               ELSE IF sp.kind = "raise" THEN Fin(Raise(sp.exc))
                               ELSE IF sp.value = <<>>
                               THEN Fin(Raise("ValueError"))  \* min() of nothing
                               ELSE Goto([Top EXCEPT
                                   !.k = @ + 1,
                                   !.poses = Append(@,
                                       sp.value[MultiTagSpecial_select(c.rots, Top.rot)])]))
    /\ UNCHANGED <<robot, cam, comps, threads, prev, loc, tagPoses, field, fieldCtor, gc, chain, ctor, dets, angleCalls, angle>>

MultiTagSpecial_Return ==
    /\ Running("MultiTagSpecial", "loop")
    /\ Top.k > Len(dets)
    /\ Apply(IF Top.poses = <<>> THEN MultiTagSpecial_use_fallback(Self)
             ELSE Fin(MultiTagSpecial_mean(Top.poses)))
    /\ UNCHANGED <<robot, cam, comps, threads, prev, loc, tagPoses, field, fieldCtor, gc, chain, ctor, dets, log, angleCalls, angle>>

----------------------------------------------------------------------------
(* localization/estimation.py: any other PoseEstimationStrategy *)

Sentinel == Pose(<<[prob |-> 0, sol |-> 0, weight |-> 0]>>, NoError)

\* a stub's estimate_pose returns None or its sentinel, whatever it is given
Stub_Step ==
    /\ Running("Stub", "enter")
    /\ \E out \in {RetNone, RetPose(Sentinel)} : Finish(out)
    /\ UNCHANGED <<robot, cam, comps, threads, prev, loc, tagPoses, field, fieldCtor, gc, chain, ctor, dets, log, angleCalls, angle>>

----------------------------------------------------------------------------
(* localization/localizer.py *)

\* what the detector may report: tags on and off the field, of the field's
\* family and of another
SeenTagIds == TagIds \cup {5}
Families == {TagFamily, "tag16h5"}

\* a detection as the detector reports it
DetectionOf(t, family) ==
    [tag_id |-> t, tag_family |-> family,
     corners |-> [j \in CornerIdx |-> [tag |-> t, corner |-> j]]]

NoLoc == [called |-> FALSE, detected |-> <<>>, passed |-> <<>>,
          result |-> [estimated_pose |-> RetNone, detections |-> <<>>]]

\* mutant: the family of a detection is not looked at
Localizer_keeps_any_family(f, d) == InField(f, d.tag_id)

\* the condition of the comprehension (line 93)
Localizer_keeps(f, d) == InField(f, d.tag_id) /\ d.tag_family = f.tag_family

\* CameraLocalizer.estimate_pose(image); detected is what the detector finds
\* in the image, and the strategy (any CameraLocalizationStrategy) gives no
\* pose or some pose
Localizer_estimate_pose(detected) ==
    /\ stack = <<>>
    /\ field # NoField
    /\ LET detections == SelectSeq(detected, LAMBDA d : Localizer_keeps(field, d))
       IN  \E out \in {RetNone, RetPose(Sentinel)} :
             loc' = [called |-> TRUE, detected |-> detected, passed |-> detections,
                     result |-> [estimated_pose |-> out, detections |-> detections]]
    /\ UNCHANGED <<robot, cam, comps, threads, prev, tagPoses, field, fieldCtor, gc, chain, ctor, dets, stack, acts,
                   log, angleCalls, angle, result>>

----------------------------------------------------------------------------
(* apriltag/strategies/pnp.py *)

\* a call of estimate_tag_pose that has not been made: its inputs are the
\* detections the detector finds and what the solver gives for each
TagPoseCall(detected, outs) ==
    [detected |-> detected, outs |-> outs, called |-> FALSE,
     out |-> NotCalledWith(<<>>)]
NoTagPoses == TagPoseCall(<<>>, <<>>)

\* mutant: the candidates are left in the solver's order
SortedByError_unsorted(poses) == poses

\* sorted(poses, key=attrgetter('error')): a stable sort, so each pose goes
\* behind the poses before it whose error is not greater
RECURSIVE SortedByError(_)
SortedByError(poses) ==
    IF poses = <<>> THEN <<>>
    ELSE LET front == SortedByError(SubSeq(poses, 1, Len(poses) - 1))
             last == poses[Len(poses)]
             keep == {k \in 1..Len(front) : front[k].error <= last.error}
             cut == IF keep = {} THEN 0
                    ELSE CHOOSE k \in keep : \A j \in keep : j <= k
         IN  SubSeq(front, 1, cut) \o <<last>> \o SubSeq(front, cut + 1, Len(front))

\* PerspectiveNPointStrategy.__get_poses_from_corners for the k-th detection
GetPosesFromCorners(k, out) ==
    LET sp == SolvePnp(k, out)
    IN  IF sp.kind = "raise" THEN sp ELSE Returned(SortedByError(sp.value))

\* PerspectiveNPointStrategy.estimate_tag_pose(image, detector, ...): one
\* AprilTagDetection per detection of the detector, in its order
PnPStrategy_estimate_tag_pose ==
    /\ ~tagPoses.called
    /\ LET n == Len(tagPoses.detected)
           got == [k \in 1..n |-> GetPosesFromCorners(k, tagPoses.outs[k])]
           bad == {k \in 1..n : got[k].kind = "raise"}
       IN  tagPoses' = [tagPoses EXCEPT
               !.called = TRUE,
               !.out = IF bad # {} THEN RaisedWith(got[Least(bad)].exc, <<>>)
                       ELSE Returned([k \in 1..n |->
                               [tag_id |-> tagPoses.detected[k].tag_id,
                                tag_family |-> tagPoses.detected[k].tag_family,
                                corners |-> tagPoses.detected[k].corners,
                                tag_poses |-> got[k].value]])]
    /\ UNCHANGED <<robot, cam, comps, threads, prev, loc, field, fieldCtor, gc, chain, ctor, dets, stack, acts, log,
                   angleCalls, angle, result>>

----------------------------------------------------------------------------
(* Specifications *)

\* no call is kept
NoPrev == [kept |-> FALSE, dets |-> <<>>, log |-> <<>>, angleCalls |-> <<>>,
           result |-> Pending]

\* the threads that share a field; none is in a call
Threads == {1, 2}
Idle == [pc |-> "idle", tag_ids |-> <<>>, i |-> 1, blocks |-> <<>>,
         out |-> NotCalledWith(<<>>)]

\* a Python float and a numpy float64 of value v
PyFloat(v) == [type |-> "float", v |-> v]
NpFloat(v) == [type |-> "float64", v |-> v]

\* the fields of a CameraParameters in the order of their declaration
\* (lines 35-51): fx, fy, cx, cy and the distortion k1, k2, p1, p2, k3
CameraParameters(fx, fy, cx, cy, dist) ==
    [fx |-> fx, fy |-> fy, cx |-> cx, cy |-> cy, dist |-> dist]

\* no CameraParameters object yet
NoCamera == [made |-> FALSE, via |-> None,
             given |-> CameraParameters(PyFloat(0), PyFloat(0), PyFloat(0), PyFloat(0), <<>>),
             obj |-> CameraParameters(PyFloat(0), PyFloat(0), PyFloat(0), PyFloat(0), <<>>),
             setattr |-> NotCalledWith(<<>>)]

\* a robot MultiTagEstimationStrategy as constructed (line 20): nothing
\* cached, no call yet
NoRobot == [corners_cache |-> <<>>, called |-> FALSE, field |-> None, dets |-> <<>>,
            object_corner_groups |-> <<>>, out |-> Pending]

InitCall ==
    /\ robot = NoRobot
    /\ cam = NoCamera
    /\ comps = <<>>
    /\ prev = NoPrev
    /\ threads = [t \in Threads |-> Idle]
    /\ dets = <<>>
    /\ stack = <<>>
    /\ acts = <<>>
    /\ log = <<>>
    /\ angleCalls = <<>>
    /\ result = Pending
    /\ loc = NoLoc

\* SpecField: fields are constructed and asked for corners
InitField ==
    /\ field = NoField
    /\ fieldCtor = NotCalledWith(NoField)
    /\ gc = NoGetCorners
    /\ chain = <<>>
    /\ ctor = NoCtor
    /\ angle = 0
    /\ tagPoses = NoTagPoses
    /\ InitCall

NextField ==
    \/ \E d \in TagDicts : ConstructField(d)
    \/ \E ids \in SeqsOf(TagIds, 0, MaxIds) : CallGetCorners(ids)

SpecField == InitField /\ [][NextField]_vars

\* SpecCtor: strategies are constructed, each on top of the last as fallback
\* or on its own
NextCtor ==
    \E kind \in Kinds, m \in PnPMethod \cup {None}, withFallback \in BOOLEAN :
        Construct(kind, m, withFallback)

SpecCtor == InitField /\ [][NextCtor]_vars

\* SpecEstimate: a constructed strategy estimates poses against a field
\* the methods the strategies are built with: the planar method for the
\* per-tag strategies, the default for the combined solve
MethodOf(kind) == IF kind = "MultiTagPnP" THEN "SQPNP" ELSE "IPPE"

\* the chains the constructors accept
RECURSIVE Constructible(_)
Constructible(c) ==
    \/ c = <<>>
    \/ /\ Constructible(Tail(c))
       /\ Len(c) > 1 => Head(c).kind \in {"MultiTagPnP", "MultiTagSpecial"}
       /\ StrategyInit(Head(c).kind,
                       IF Len(c) > 1 THEN c[2].kind ELSE None,
                       Head(c).pnp_method) = Returned(Head(c))

Chains ==
    {c \in SeqsOf({Strategy(k, MethodOf(k)) : k \in Kinds \ {"Stub"}}
                  \cup {Strategy("Stub", None)}, 1, MaxChain) : Constructible(c)}

\* the field of the estimate calls: every tag, in ascending order of ID
FullDicts == {d \in PlainDicts : /\ Len(d) = Cardinality(TagIds)
                                 /\ \A i \in 1..(Len(d) - 1) : d[i].tag_id < d[i + 1].tag_id}

InitEstimate ==
    /\ field \in {AprilTagFieldInit(TagSize, d, TagFamily).value : d \in FullDicts}
    /\ fieldCtor = NotCalledWith(NoField)
    /\ gc = NoGetCorners
    /\ chain \in Chains
    /\ ctor = NoCtor
    /\ angle \in Rotations
    /\ tagPoses = NoTagPoses
    /\ InitCall

NextEstimate ==
    \/ \E ds \in SeqsOf({Detection(t) : t \in TagIds}, 0, MaxDets) : Estimate(ds)
    \/ MultiTagPnP_Step(SolverOutputs(CoarseErrs))
    \/ LowestAmbiguity_Enter
    \/ LowestAmbiguity_Iterate(SolverOutputs(CoarseErrs))
    \/ LowestAmbiguity_Return
    \/ MultiTagSpecial_Enter
    \/ MultiTagSpecial_Iterate(SolverOutputs(CoarseErrs))
    \/ MultiTagSpecial_Return
    \/ Stub_Step

SpecEstimate == InitEstimate /\ [][NextEstimate]_vars

----------------------------------------------------------------------------
(* Properties *)

\* an estimate call has run to its end
Done == stack = <<>> /\ result.kind # "pending"

\* corner j of tag t of field f in the world frame
WorldCorner(f, t, j) == TransformCorners(GetItem(f, t), f.tag_size)[j]

\* chain[1] called its fallback chain[2] with the detections of the call, and
\* what that call gave is what the call gave
FallbackAnswered ==
    \E n \in 1..Len(acts) :
        /\ acts[n].obj = 2
        /\ acts[n].caller = 1
        /\ acts[n].dets = dets
        /\ acts[n].out = result

\* C1: a Multi-Tag PnP strategy with a fallback, given exactly one
\* detection, returns what its fallback returns for the same detections.
C1_SingleDetectionFallsBack ==
    (/\ Done
     /\ chain[1].kind = "MultiTagPnP"
     /\ Len(chain) >= 2
     /\ Len(dets) = 1) => FallbackAnswered

\* C2: every estimate call ends without exhausting the stack: no strategy
\* delegates to itself and the depth of the delegation never exceeds the
\* length of the fallback chain.
C2_DelegationBounded ==
    /\ Len(stack) <= Len(chain)
    /\ \A n \in 1..Len(acts) : acts[n].caller # acts[n].obj
    /\ Done => result.exc # "RecursionError"

\* C3: the object points and image points Multi-Tag PnP hands to solve_pnp
\* have the same number of rows, and row by row they are the same corner of
\* the same tag.
C3_PointsCorrespond ==
    \A n \in 1..Len(log) :
        chain[log[n].obj].kind = "MultiTagPnP" =>
            /\ Len(log[n].object_points) = Len(log[n].image_points)
            /\ \A r \in 1..Len(log[n].image_points) :
                 /\ r <= Len(log[n].object_points)
                 /\ log[n].object_points[r] =
                        WorldCorner(field, log[n].image_points[r].tag,
                                    log[n].image_points[r].corner)

\* C4: get_corners of n >= 1 tag IDs of the field gives 4n rows, rows
\* 4i-3..4i being the corners of the i-th ID given.
C4_CornersInGivenOrder ==
    (/\ gc.tag_ids # <<>>
     /\ \A i \in 1..Len(gc.tag_ids) : InField(field, gc.tag_ids[i])) =>
        /\ gc.out.kind = "return"
        /\ Len(gc.out.value) = 4 * Len(gc.tag_ids)
        /\ \A i \in 1..Len(gc.tag_ids), j \in CornerIdx :
              /\ 4 * (i - 1) + j <= Len(gc.out.value)
              /\ gc.out.value[4 * (i - 1) + j] = WorldCorner(field, gc.tag_ids[i], j)

\* C5: a Multi-Tag PnP strategy with a fallback, given two or more
\* detections, returns what its fallback returns when the combined solve
\* raises EstimationError or gives no candidate.
C5_FailedSolveFallsBack ==
    (/\ Done
     /\ chain[1].kind = "MultiTagPnP"
     /\ Len(chain) >= 2
     /\ Len(dets) >= 2
     /\ log # <<>>
     /\ log[1].out.raises = None
     /\ (~log[1].out.success \/ log[1].out.errs = <<>>)) => FallbackAnswered

\* the solve_pnp calls chain[i] made in this call
SolvesOf(i) == {n \in 1..Len(log) : log[n].obj = i}

\* chain[i] met a situation in which it turns to its fallback
FallbackTriggered(i) ==
    \/ Len(dets) = 1
    \/ /\ chain[i].kind = "MultiTagPnP"
       /\ \E n \in SolvesOf(i) : /\ log[n].out.raises = None
                                 /\ (~log[n].out.success \/ log[n].out.errs = <<>>)
    \/ /\ chain[i].kind = "MultiTagSpecial"
       /\ Len(dets) >= 2
       /\ Cardinality(SolvesOf(i)) = Len(dets)
       /\ \A n \in SolvesOf(i) : log[n].out.raises = None /\ ~log[n].out.success

\* C6: a Multi-Tag PnP or Multi-Tag Special strategy without a fallback
\* returns None, and does not raise, whenever it would turn to a fallback.
C6_NoFallbackGivesNone ==
    Done => \A n \in 1..Len(acts) :
        (/\ acts[n].obj = Len(chain)
         /\ chain[acts[n].obj].kind \in {"MultiTagPnP", "MultiTagSpecial"}
         /\ FallbackTriggered(acts[n].obj)) => acts[n].out = RetNone

\* C6 happens: a Multi-Tag PnP strategy without a fallback, two detections,
\* the combined solve fails, and the call gives None
C6_Witness ==
    /\ Done
    /\ chain = <<Strategy("MultiTagPnP", "SQPNP")>>
    /\ Len(dets) = 2
    /\ log # <<>>
    /\ ~log[1].out.success
    /\ result = RetNone

\* C7: with no detections every strategy returns None without calling the
\* solver, a fallback or the angle producer.
C7_EmptyGivesNone ==
    (/\ Done
     /\ dets = <<>>
     /\ chain[1].kind \in {"LowestAmbiguity", "MultiTagPnP", "MultiTagSpecial"}) =>
        /\ result = RetNone
        /\ log = <<>>
        /\ Len(acts) = 1
        /\ angleCalls = <<>>

\* C7 happens: a Multi-Tag PnP strategy with a fallback is called with no
\* detections and gives None
C7_Witness ==
    /\ Done
    /\ dets = <<>>
    /\ Len(chain) = 2
    /\ chain[1].kind = "MultiTagPnP"
    /\ result = RetNone

\* C8: no constructed Multi-Tag PnP strategy has a Multi-Tag PnP fallback or
\* the IPPE method, no constructed Multi-Tag Special strategy has a Multi-Tag
\* Special fallback, and each such construction raises in the constructor.
C8_GuardedConstruction ==
    /\ \A i \in 1..Len(chain) :
         /\ chain[i].kind = "MultiTagPnP" =>
               /\ chain[i].pnp_method # "IPPE"
               /\ i < Len(chain) => chain[i + 1].kind # "MultiTagPnP"
         /\ chain[i].kind = "MultiTagSpecial" =>
               (i < Len(chain) => chain[i + 1].kind # "MultiTagSpecial")
    /\ (/\ ctor.kind = "MultiTagPnP"
        /\ (ctor.fallback_kind = "MultiTagPnP" \/ ctor.pnp_method = "IPPE"))
           => ctor.out.kind = "raise"
    /\ (/\ ctor.kind = "MultiTagSpecial"
        /\ ctor.fallback_kind = "MultiTagSpecial") => ctor.out.kind = "raise"

\* C8 happens: Multi-Tag PnP is constructed with the IPPE method on top of a
\* Lowest-Ambiguity fallback, the constructor raises and no object is made
C8_Witness ==
    /\ ctor.kind = "MultiTagPnP"
    /\ ctor.fallback_kind = "LowestAmbiguity"
    /\ ctor.pnp_method = "IPPE"
    /\ ctor.out.kind = "raise"
    /\ chain = <<Strategy("LowestAmbiguity", "IPPE")>>

C10_ReturnsLowestError ==
    (/\ Done
     /\ chain[1].kind = "MultiTagPnP"
     /\ Len(dets) >= 2
     /\ log # <<>>
     /\ log[1].out.success
     /\ log[1].out.errs # <<>>) =>
        /\ result.kind = "pose"
        /\ \E k \in 1..Len(log[1].out.errs) :
              result.pose = SolvePnp(1, log[1].out).value[k]
        /\ \A k \in 1..Len(log[1].out.errs) : result.pose.error <= log[1].out.errs[k]

----------------------------------------------------------------------------
(* Properties of the Lowest-Ambiguity strategy *)

\* the Lowest-Ambiguity strategy of the chain (it takes no fallback, so it
\* is the last of the chain) ran in this call
LowestAmbiguityRan ==
    /\ chain[Len(chain)].kind = "LowestAmbiguity"
    /\ \E n \in 1..Len(acts) : acts[n].obj = Len(chain)

\* the first solve_pnp call of this call on the problem of call n
ProbOf(n) ==
    Least({m \in 1..n : /\ log[m].method = log[n].method
                        /\ log[m].object_points = log[n].object_points
                        /\ log[m].image_points = log[n].image_points})

\* what solve_pnp gave in call n
SolvedAt(n) == SolvePnp(ProbOf(n), log[n].out)

\* the candidate the Lowest-Ambiguity strategy kept out of call n
KeptAt(n) == LowestAmbiguity_best_pose(SolvedAt(n)).value

\* ambiguity of a <= ambiguity of b as ratios, an absent one being infinite
AmbiguityAtMost(a, b) ==
    \/ ~b.ambiguity.has
    \/ /\ a.ambiguity.has
       /\ a.ambiguity.num * b.ambiguity.den <= b.ambiguity.num * a.ambiguity.den

\* C11: a Lowest-Ambiguity call on one or more detections that returns gives
\* one of the candidates it kept, one per detection, and no kept candidate
\* has a lower ambiguity; a candidate without ambiguity counts as infinite.
C11_ReturnsLowestAmbiguity ==
    (/\ Done
     /\ LowestAmbiguityRan
     /\ dets # <<>>
     /\ result.kind # "raise") =>
        /\ result.kind = "pose"
        /\ Cardinality(SolvesOf(Len(chain))) = Len(dets)
        /\ \E n \in SolvesOf(Len(chain)) : result.pose = KeptAt(n)
        /\ \A n \in SolvesOf(Len(chain)) : AmbiguityAtMost(result.pose, KeptAt(n))

\* C11 happens: two detections, the first tag has one solution (no
\* ambiguity), the second has two, and the second tag's candidate is returned
C11_Witness ==
    /\ Done
    /\ chain = <<Strategy("LowestAmbiguity", "IPPE")>>
    /\ Len(dets) = 2
    /\ Len(log) = 2
    /\ Len(log[1].out.errs) = 1
    /\ Len(log[2].out.errs) = 2
    /\ result.kind = "pose"
    /\ result.pose = KeptAt(2)
    /\ result.pose.ambiguity.has

\* SpecLowest: a Lowest-Ambiguity strategy on its own, the solver reporting
\* every error of Errs in every order
InitLowest ==
    /\ field \in {AprilTagFieldInit(TagSize, d, TagFamily).value : d \in FullDicts}
    /\ fieldCtor = NotCalledWith(NoField)
    /\ gc = NoGetCorners
    /\ chain = <<LowestAmbiguity_init("IPPE").value>>
    /\ ctor = NoCtor
    /\ angle = 0
    /\ tagPoses = NoTagPoses
    /\ InitCall

NextLowest ==
    \/ \E ds \in SeqsOf({Detection(t) : t \in TagIds}, 0, MaxDets) : Estimate(ds)
    \/ LowestAmbiguity_Enter
    \/ LowestAmbiguity_Iterate(SolverOutputs(Errs))
    \/ LowestAmbiguity_Return

SpecLowest == InitLowest /\ [][NextLowest]_vars

\* the smallest of the errors e, and the smallest of the others
MinErr(e) == CHOOSE x \in {e[k] : k \in 1..Len(e)} : \A k \in 1..Len(e) : x <= e[k]
SecondErr(e) ==
    LET i == CHOOSE k \in 1..Len(e) : e[k] = MinErr(e)
    IN  CHOOSE x \in {e[k] : k \in 1..Len(e) \ {i}} :
            \A k \in 1..Len(e) \ {i} : x <= e[k]

\* the Lowest-Ambiguity strategy kept a candidate out of solve_pnp call n
Kept(n) ==
    /\ chain[log[n].obj].kind = "LowestAmbiguity"
    /\ LowestAmbiguity_best_pose(SolvedAt(n)).kind = "return"

\* C12: of two or more candidates for a tag the Lowest-Ambiguity strategy
\* keeps one of the smallest error, with ambiguity smallest error over
\* second-smallest error, at most 1; a single candidate is kept without
\* ambiguity.
C12_KeepsBestWithRatio ==
    \A n \in 1..Len(log) : Kept(n) =>
        LET e == log[n].out.errs
            kept == KeptAt(n)
        IN  /\ Len(e) = 1 => kept = SolvedAt(n).value[1] /\ ~kept.ambiguity.has
            /\ Len(e) >= 2 =>
                 /\ kept.error = MinErr(e)
                 /\ kept.ambiguity.has
                 /\ kept.ambiguity.num = MinErr(e)
                 /\ kept.ambiguity.den = SecondErr(e)
                 /\ kept.ambiguity.num <= kept.ambiguity.den

----------------------------------------------------------------------------
(* Properties of failing and degenerate solves *)

\* solve_pnp call n gave a candidate of error zero, or candidates all of
\* the same error
ZeroOrTied(n) ==
    LET e == log[n].out.errs
    IN  /\ e # <<>>
        /\ \/ \E k \in 1..Len(e) : e[k] = 0
           \/ \A j, k \in 1..Len(e) : e[j] = e[k]

\* C13: a call in which the solver reports an error of exactly zero, or
\* equal errors for all candidates of a tag, does not end in a division by
\* zero: neither the ambiguity ratio nor the weights 1 / error raise.
C13_NoDivisionByZero ==
    (/\ Done
     /\ \E n \in 1..Len(log) : ZeroOrTied(n)) => result.exc # "ZeroDivisionError"

\* C14: no estimate call ends by raising EstimationError: each strategy
\* takes a failed solve as non-fatal and returns a pose or None.
C14_EstimationErrorContained ==
    Done => /\ result.exc # "EstimationError"
            /\ \A n \in 1..Len(acts) : acts[n].out.exc # "EstimationError"

----------------------------------------------------------------------------
(* Properties of the Multi-Tag Special strategy *)

\* the rotation r composed with the inverse of the rotation a
RotDiff(r, a) == (r + NumRotations - a) % NumRotations

\* the call returned a pose Multi-Tag Special computed from its own solves
SpecialComputed ==
    /\ Done
    /\ chain[1].kind = "MultiTagSpecial"
    /\ Len(dets) >= 2
    /\ result.kind = "pose"
    /\ \A k \in 1..Len(result.pose.rt) :
          /\ result.pose.rt[k].prob \in SolvesOf(1)
          /\ result.pose.rt[k].sol \in 1..Len(log[result.pose.rt[k].prob].rots)

\* C15: every candidate Multi-Tag Special selects differs least from the
\* supplied orientation A among its tag's candidates: the magnitude of its
\* rotation composed with the inverse of A is minimal.
C15_SelectsClosestRotation ==
    SpecialComputed =>
        \A k \in 1..Len(result.pose.rt) :
            LET e == log[result.pose.rt[k].prob]
                sel == result.pose.rt[k].sol
            IN  \A j \in 1..Len(e.rots) :
                    Magnitude(RotDiff(e.rots[sel], e.actual))
                        <= Magnitude(RotDiff(e.rots[j], e.actual))

\* SpecSpecial: a Multi-Tag Special strategy, alone or with a stub as its
\* fallback, estimates while the orientation source changes; the solver's
\* solutions differ in their rotations only
InitSpecial ==
    /\ field \in {AprilTagFieldInit(TagSize, d, TagFamily).value : d \in FullDicts}
    /\ fieldCtor = NotCalledWith(NoField)
    /\ gc = NoGetCorners
    /\ chain \in {c \in Chains : /\ c[1].kind = "MultiTagSpecial"
                                 /\ \A i \in 2..Len(c) : c[i].kind = "Stub"}
    /\ ctor = NoCtor
    /\ angle = 0
    /\ tagPoses = NoTagPoses
    /\ InitCall

NextSpecial ==
    \/ \E ds \in SeqsOf({Detection(t) : t \in TagIds}, 0, MaxDets) : Estimate(ds)
    \/ \E a \in Rotations : SetAngle(a)
    \/ MultiTagSpecial_Enter
    \/ MultiTagSpecial_Iterate(SolverOutputs({1}))
    \/ MultiTagSpecial_Return
    \/ Stub_Step

SpecSpecial == InitSpecial /\ [][NextSpecial]_vars

\* C16, with one invocation in every call: a Multi-Tag Special call invokes
\* the angle producer once, and every selection of the call uses the value
\* that invocation returned.
C16_InvokesOncePerCall ==
    chain[1].kind = "MultiTagSpecial" =>
        /\ Done => Len(angleCalls) = 1
        /\ \A n \in SolvesOf(1) : angleCalls # <<>> /\ log[n].actual = angleCalls[1]

\* C16, with the invocation only where the orientation is needed: a
\* Multi-Tag Special call invokes the angle producer once when it is given
\* two or more detections and not at all otherwise, and every selection of
\* the call uses the value that invocation returned.
C16_InvokesOnceWhenSelecting ==
    chain[1].kind = "MultiTagSpecial" =>
        /\ Len(angleCalls) <= 1
        /\ Done => (Len(angleCalls) = 1 <=> Len(dets) >= 2)
        /\ \A n \in SolvesOf(1) : angleCalls # <<>> /\ log[n].actual = angleCalls[1]

\* C16 happens: a call on two detections ended, its two selections used the
\* orientation measured at its start, and the source has changed since
C16_Witness ==
    /\ Done
    /\ chain[1].kind = "MultiTagSpecial"
    /\ Len(dets) = 2
    /\ Len(log) = 2
    /\ angleCalls = <<2>>
    /\ log[2].actual = 2
    /\ angle = 1

\* every detection of the call had its solve by chain[1], and each raised
\* EstimationError
AllSolvesFailed ==
    /\ Cardinality(SolvesOf(1)) = Len(dets)
    /\ \A n \in SolvesOf(1) : SolvedAt(n) = RaisedWith("EstimationError", <<>>)

\* C17: a Multi-Tag Special strategy with a fallback, given one detection,
\* or two or more whose solves all raise EstimationError, returns what its
\* fallback returns for the same detections.
C17_SpecialFallsBack ==
    (/\ Done
     /\ chain[1].kind = "MultiTagSpecial"
     /\ Len(chain) >= 2
     /\ \/ Len(dets) = 1
        \/ Len(dets) >= 2 /\ AllSolvesFailed) => FallbackAnswered

\* C17 happens: two detections, both solves fail, and the sentinel of the
\* stub fallback comes back
C17_Witness ==
    /\ Done
    /\ chain[1].kind = "MultiTagSpecial"
    /\ Len(chain) = 2
    /\ chain[2].kind = "Stub"
    /\ Len(dets) = 2
    /\ AllSolvesFailed
    /\ result = RetPose(Sentinel)

----------------------------------------------------------------------------
(* Properties of the localizer *)

\* SpecLocalizer: a localizer over some field is given images
InitLocalizer ==
    /\ field \in {AprilTagFieldInit(TagSize, d, TagFamily).value :
                     d \in PlainDicts \ {<<>>}}
    /\ fieldCtor = NotCalledWith(NoField)
    /\ gc = NoGetCorners
    /\ chain = <<>>
    /\ ctor = NoCtor
    /\ angle = 0
    /\ tagPoses = NoTagPoses
    /\ InitCall

NextLocalizer ==
    \E detected \in SeqsOf({DetectionOf(t, f) : t \in SeenTagIds, f \in Families},
                          0, MaxDets) :
        Localizer_estimate_pose(detected)

SpecLocalizer == InitLocalizer /\ [][NextLocalizer]_vars

\* the positions in the detector's output of the detections on the field
\* and of its family
OnField == {i \in 1..Len(loc.detected) :
               /\ \E k \in 1..Len(field.tag_positions) :
                     field.tag_positions[k].tag_id = loc.detected[i].tag_id
               /\ loc.detected[i].tag_family = field.tag_family}

----------------------------------------------------------------------------
(* Properties of the single-tag PnP strategy *)

\* what the solver may give for one tag: no success, up to two solutions of
\* any errors in any order, or three solutions of different errors in any
\* order
TagSolverOutputs ==
    {[success |-> FALSE, errs |-> <<>>, raises |-> None]}
    \cup {[success |-> TRUE, errs |-> e, raises |-> None] :
             e \in UNION {[1..n -> Errs] : n \in 0..2}
                   \cup {e3 \in [1..3 -> Errs] : IsInjective(e3)}}

\* SpecTagPose: estimate_tag_pose is called on an image
InitTagPose ==
    /\ field = NoField
    /\ fieldCtor = NotCalledWith(NoField)
    /\ gc = NoGetCorners
    /\ chain = <<>>
    /\ ctor = NoCtor
    /\ angle = 0
    /\ \E n \in 0..MaxDets :
         \E d \in [1..n -> {DetectionOf(t, TagFamily) : t \in TagIds}],
            o \in [1..n -> TagSolverOutputs] : tagPoses = TagPoseCall(d, o)
    /\ InitCall

NextTagPose == PnPStrategy_estimate_tag_pose

SpecTagPose == InitTagPose /\ [][NextTagPose]_vars

\* C19: the tag_poses attached to each detection are the candidates
\* solve_pnp returned for it, none dropped and none added, in order of
\* non-decreasing reprojection error.
C19_TagPosesSorted ==
    (tagPoses.called /\ tagPoses.out.kind = "return") =>
        /\ Len(tagPoses.out.value) = Len(tagPoses.detected)
        /\ \A k \in 1..Len(tagPoses.out.value) :
              LET given == SolvePnp(k, tagPoses.outs[k]).value
                  poses == tagPoses.out.value[k].tag_poses
              IN  /\ Len(poses) = Len(given)
                  /\ {poses[j] : j \in 1..Len(poses)} = {given[j] : j \in 1..Len(given)}
                  /\ \A i, j \in 1..Len(poses) :
                        i < j => poses[i].error <= poses[j].error

\* C19 happens: the solver gives three candidates of errors 2, 0, 1 for a
\* detection, and they are attached in the order 0, 1, 2
C19_Witness ==
    /\ tagPoses.called
    /\ tagPoses.out.kind = "return"
    /\ Len(tagPoses.detected) = 1
    /\ tagPoses.outs[1].errs = <<2, 0, 1>>
    /\ [j \in 1..3 |-> tagPoses.out.value[1].tag_poses[j].rt[1].sol] = <<2, 3, 1>>

----------------------------------------------------------------------------
(* Properties of the frame of the returned pose *)

\* the strategy object whose estimate_pose ended the call
Answerer == acts[Len(acts)].obj

\* C20: a pose the Lowest-Ambiguity or the Multi-Tag PnP strategy returns
\* has the rotation, translation and error of one candidate solve_pnp gave
\* that strategy in the call: it is not inverted and not composed.
C20_ReturnsSolverCandidate ==
    (/\ Done
     /\ result.kind = "pose"
     /\ chain[Answerer].kind \in {"LowestAmbiguity", "MultiTagPnP"}) =>
        \E n \in SolvesOf(Answerer) :
            /\ SolvedAt(n).kind = "return"
            /\ \E k \in 1..Len(SolvedAt(n).value) :
                  /\ result.pose.rt = SolvedAt(n).value[k].rt
                  /\ result.pose.error = SolvedAt(n).value[k].error

\* C20 happens: Multi-Tag PnP solves for two detections, gets two
\* candidates and returns a pose
C20_Witness ==
    /\ Done
    /\ chain[1].kind = "MultiTagPnP"
    /\ Len(dets) = 2
    /\ Len(log) = 1
    /\ Len(log[1].out.errs) = 2
    /\ result.kind = "pose"
    /\ result.pose.rt = <<[prob |-> 1, sol |-> 1, weight |-> 0]>>

----------------------------------------------------------------------------
(* Properties of the frame names of a field *)

\* dictionaries of up to three tags in ascending order of ID, each pose with
\* or without frame names
FrameDicts ==
    {d \in SeqsOf([tag_id : SeenTagIds, pose : {Transform(t, i, o) :
                      t \in SeenTagIds, i \in FrameNames, o \in FrameNames}],
                  0, Cardinality(SeenTagIds)) :
        /\ \A i \in 1..Len(d) : d[i].pose.name = d[i].tag_id
        /\ \A i \in 1..(Len(d) - 1) : d[i].tag_id < d[i + 1].tag_id}

\* SpecFrames: fields are constructed from such dictionaries
NextFrames == \E d \in FrameDicts : ConstructField(d)

SpecFrames == InitField /\ [][NextFrames]_vars

\* C21: in a constructed field the poses that carry an input frame name
\* carry the same one, and the poses that carry an output frame name carry
\* the same one, whether or not other poses of the field carry none.
C21_CommonFrameNames ==
    field # NoField =>
        \A i, j \in 1..Len(field.tag_positions) :
            LET p == field.tag_positions[i].pose
                q == field.tag_positions[j].pose
            IN  /\ (p.input_space # None /\ q.input_space # None)
                      => p.input_space = q.input_space
                /\ (p.output_space # None /\ q.output_space # None)
                      => p.output_space = q.output_space

----------------------------------------------------------------------------
(* Properties of a field after its construction *)

\* the caller changes the dictionary it passed to the constructor into d:
\* line 38 keeps that very dictionary, so the field's tag_positions change
\* with it, while the corners computed at construction stay
MutateCallerDict(d) ==
    /\ field # NoField
    /\ d # field.tag_positions
    /\ field' = [field EXCEPT !.tag_positions = d]
    /\ UNCHANGED <<robot, cam, comps, threads, prev, loc, tagPoses, fieldCtor, gc, chain, ctor, dets, stack, acts, log,
                   angleCalls, angle, result>>

\* SpecAlias: a field is constructed and used while its caller goes on
\* using the dictionary
NextAlias ==
    \/ \E d \in PlainDicts : ConstructField(d)
    \/ \E ids \in SeqsOf(TagIds, 0, MaxIds) : CallGetCorners(ids)
    \/ \E d \in PlainDicts : MutateCallerDict(d)

SpecAlias == InitField /\ [][NextAlias]_vars

\* C22: whatever is done with a constructed field and with the dictionary
\* it was made from, the tags that have a pose are the tags that have cached
\* corners, in the same order, and the corners of each are those of its pose.
C22_PosesMatchCorners ==
    field # NoField =>
        /\ GetTagIds(field) = [i \in 1..Len(field.corners) |-> field.corners[i].tag_id]
        /\ \A i \in 1..Len(field.corners) :
              /\ InField(field, field.corners[i].tag_id)
              /\ field.corners[i].points
                    = TransformCorners(GetItem(field, field.corners[i].tag_id),
                                       field.tag_size)

----------------------------------------------------------------------------
(* Properties of several estimate_pose calls on one strategy object *)

\* the caller keeps the finished call, detections, solver results, angles and
\* result, and calls estimate_pose again
EstimateAfterKeeping(ds) ==
    /\ stack = <<>>
    /\ result.kind # "pending"
    /\ ~prev.kept
    /\ prev' = [kept |-> TRUE, dets |-> dets, log |-> log,
                angleCalls |-> angleCalls, result |-> result]
    /\ EstimateCall(ds)

\* SpecStateless: a strategy object estimates again and again while the
\* orientation source moves; one earlier call is kept for comparison
\* the solver fails, or finds no solution, or two of the same error
StatelessOutputs == {o \in SolverOutputs({1}) : Len(o.errs) # 1}

\* the detections of the calls: at most one of each tag of the field, in
\* ascending order of ID
StatelessDets == {ds \in SeqsOf({Detection(t) : t \in TagIds}, 0, Cardinality(TagIds)) :
                     \A i \in 1..(Len(ds) - 1) : ds[i].tag_id < ds[i + 1].tag_id}

InitStateless ==
    /\ field \in {AprilTagFieldInit(TagSize, d, TagFamily).value : d \in FullDicts}
    /\ fieldCtor = NotCalledWith(NoField)
    /\ gc = NoGetCorners
    /\ chain \in {c \in Chains : Len(c) = 1 /\ c[1].kind # "Stub"}
    /\ ctor = NoCtor
    /\ angle \in Rotations
    /\ tagPoses = NoTagPoses
    /\ InitCall

NextStateless ==
    \/ \E ds \in StatelessDets : Estimate(ds)
    \/ \E ds \in StatelessDets : EstimateAfterKeeping(ds)
    \/ stack = <<>> /\ SetAngle((angle + 1) % NumRotations)
    \/ MultiTagPnP_Step(StatelessOutputs)
    \/ LowestAmbiguity_Enter
    \/ LowestAmbiguity_Iterate(StatelessOutputs)
    \/ LowestAmbiguity_Return
    \/ MultiTagSpecial_Enter
    \/ MultiTagSpecial_Iterate(StatelessOutputs)
    \/ MultiTagSpecial_Return

SpecStateless == InitStateless /\ [][NextStateless]_vars

\* the solver gave the same answer in the kept call and in this one wherever
\* both put the same problem to it
SameSolverResults ==
    \A m \in 1..Len(prev.log), n \in 1..Len(log) :
        (/\ prev.log[m].method = log[n].method
         /\ prev.log[m].object_points = log[n].object_points
         /\ prev.log[m].image_points = log[n].image_points)
        => (/\ prev.log[m].out = log[n].out
            /\ \/ prev.log[m].rots = log[n].rots
               \/ prev.log[m].rots = <<>>
               \/ log[n].rots = <<>>)

\* the angle producer returned one and the same value wherever either call
\* asked it
SameAngle ==
    \E a \in Rotations :
        /\ \A i \in 1..Len(prev.angleCalls) : prev.angleCalls[i] = a
        /\ \A i \in 1..Len(angleCalls) : angleCalls[i] = a

\* the finished call had the inputs of the kept one
SameInputs ==
    /\ prev.kept
    /\ Done
    /\ dets = prev.dets
    /\ SameSolverResults
    /\ SameAngle

EqualCallsEqualResults == SameInputs => result = prev.result

\* C23: a call that is given the detections, solver results and angle of an
\* earlier call on the same strategy object returns (or raises) what that
\* call did, whatever happened in between, and no step of an estimate call
\* changes the strategy objects.
C23_EstimateIsStateless ==
    /\ []EqualCallsEqualResults
    /\ [][chain' = chain]_vars

C23_Witness ==
    /\ SameInputs
    /\ chain[1].kind = "MultiTagSpecial"
    /\ Len(dets) = 2
    /\ angleCalls # <<>>
    /\ result.kind = "pose"

----------------------------------------------------------------------------
(* Properties of get_corners calls of several threads on one field *)

\* thread t calls field.get_corners(*tag_ids): lines 73-74, or the start of
\* the iteration over self.__corners.items() of line 75
GetCorners_Begin(t, tag_ids) ==
    /\ threads[t].pc # "scan"
    /\ threads' = [threads EXCEPT ![t] =
          IF tag_ids = <<>>
          THEN [pc |-> "done", tag_ids |-> tag_ids, i |-> 1, blocks |-> <<>>,
                out |-> Returned(<<>>)]
          ELSE [pc |-> "scan", tag_ids |-> tag_ids, i |-> 1, blocks |-> <<>>,
                out |-> NotCalledWith(<<>>)]]
    /\ UNCHANGED <<robot, cam, comps, prev, loc, tagPoses, field, fieldCtor, gc, chain, ctor, dets, stack,
                   acts, log, angleCalls, angle, result>>

\* mutant: the comprehension takes each item it reads out of the table
GetCorners_Scan_popping(t) ==
    /\ threads[t].pc = "scan"
    /\ field.corners # <<>>
    /\ LET item == field.corners[1]
       IN  threads' = [threads EXCEPT
              ![t].blocks = IF \E k \in 1..Len(threads[t].tag_ids) :
                                  threads[t].tag_ids[k] = item.tag_id
                            THEN Append(@, item.points) ELSE @]
    /\ field' = [field EXCEPT !.corners = Tail(@)]
    /\ UNCHANGED <<robot, cam, comps, prev, loc, tagPoses, fieldCtor, gc, chain, ctor, dets, stack,
                   acts, log, angleCalls, angle, result>>

\* thread t reads the next item of self.__corners and keeps its corners if
\* its tag is asked for (one pass of the comprehension of line 75)
GetCorners_Scan(t) ==
    /\ threads[t].pc = "scan"
    /\ threads[t].i <= Len(field.corners)
    /\ LET item == field.corners[threads[t].i]
       IN  threads' = [threads EXCEPT
              ![t].i = @ + 1,
              ![t].blocks = IF \E k \in 1..Len(threads[t].tag_ids) :
                                  threads[t].tag_ids[k] = item.tag_id
                            THEN Append(@, item.points) ELSE @]
    /\ UNCHANGED <<robot, cam, comps, prev, loc, tagPoses, field, fieldCtor, gc, chain, ctor, dets, stack,
                   acts, log, angleCalls, angle, result>>

\* the table is read through: np.vstack of what was kept (line 75)
GetCorners_End(t) ==
    /\ threads[t].pc = "scan"
    /\ threads[t].i > Len(field.corners)
    /\ threads' = [threads EXCEPT
          ![t].pc = "done",
          ![t].out = IF threads[t].blocks = <<>> THEN RaisedWith("ValueError", <<>>)
                     ELSE Returned(FlattenSeq(threads[t].blocks))]
    /\ UNCHANGED <<robot, cam, comps, prev, loc, tagPoses, field, fieldCtor, gc, chain, ctor, dets, stack,
                   acts, log, angleCalls, angle, result>>

\* SpecThreads: the threads call get_corners on a field constructed before
InitThreads ==
    /\ \E d \in PlainDicts :
          /\ AprilTagFieldInit(TagSize, d, TagFamily).kind = "return"
          /\ field = AprilTagFieldInit(TagSize, d, TagFamily).value
    /\ fieldCtor = NotCalledWith(NoField)
    /\ gc = NoGetCorners
    /\ chain = <<>>
    /\ ctor = NoCtor
    /\ angle = 0
    /\ tagPoses = NoTagPoses
    /\ InitCall

NextThreads ==
    \E t \in Threads :
        \/ \E tag_ids \in SeqsOf(TagIds, 0, MaxIds) : GetCorners_Begin(t, tag_ids)
        \/ GetCorners_Scan(t)
        \/ GetCorners_End(t)

SpecThreads == InitThreads /\ [][NextThreads]_vars

\* the table holds the corners of every tag of the field
TableComplete ==
    \A i \in 1..Len(field.tag_positions) :
        \E j \in 1..Len(field.corners) :
            /\ field.corners[j].tag_id = field.tag_positions[i].tag_id
            /\ field.corners[j].points
                  = TransformCorners(field.tag_positions[i].pose, field.tag_size)

\* the corners a call gets when no other call runs: those of the asked tags
\* of the field, in the order of the field
CornersAlone(tag_ids) ==
    LET asked == SelectSeq(field.tag_positions,
                           LAMBDA p : \E k \in 1..Len(tag_ids) : tag_ids[k] = p.tag_id)
    IN  IF tag_ids = <<>> THEN Returned(<<>>)
        ELSE IF asked = <<>> THEN RaisedWith("ValueError", <<>>)
        ELSE Returned(FlattenSeq([n \in 1..Len(asked) |->
                                     TransformCorners(asked[n].pose, field.tag_size)]))

ThreadsGetCornersAlone ==
    /\ TableComplete
    /\ \A t \in Threads :
          threads[t].pc = "done" => threads[t].out = CornersAlone(threads[t].tag_ids)

\* C24: however the get_corners calls of the threads interleave on a shared
\* field, the table holds the corners of every tag whenever it is read, no
\* step of a call writes to the field, and every call ends with the corners
\* it gets when it runs alone.
C24_ConcurrentReadsAgree ==
    /\ []ThreadsGetCornersAlone
    /\ [][field' = field]_vars

C24_Witness ==
    /\ Len(field.tag_positions) = 2
    /\ threads[1].pc = "done"
    /\ threads[1].out.kind = "return"
    /\ Len(threads[1].tag_ids) = 2
    /\ threads[2].pc = "scan"
    /\ threads[2].i = 2
    /\ threads[2].tag_ids # threads[1].tag_ids
    /\ threads[2].blocks # <<>>

----------------------------------------------------------------------------
(* Composition of frame-tagged transforms; localization/render/camera_pose_display.py *)

OpticalFrames == {None, "world", "world_optical", "tag_optical"}

\* a transform named by the parts it is composed of
NamedTransforms ==
    {Transform(<<n>>, i, o) : n \in {"from_matrix", "make"},
                              i \in OpticalFrames, o \in OpticalFrames}

NoTransform == Transform(<<>>, None, None)

\* A @ B: B is applied first, so the frame B leads to is the frame A starts
\* from; the result leads from B's input frame to A's output frame
Compose(A, B) ==
    IF /\ A.input_space # None
       /\ B.output_space # None
       /\ A.input_space # B.output_space
    THEN RaisedWith("FrameMismatchError", NoTransform)
    ELSE Returned(Transform(A.name \o B.name, B.input_space, A.output_space))

\* the record of one A @ B done by the function by
Composition(A, B, by) == [left |-> A, right |-> B, out |-> Compose(A, B), by |-> by]

\* A @ B by any caller
ComposeTransforms(A, B) ==
    /\ comps' = <<Composition(A, B, "caller")>>
    /\ UNCHANGED <<robot, cam, threads, prev, loc, tagPoses, field, fieldCtor, gc, chain, ctor, dets,
                   stack, acts, log, angleCalls, angle, result>>

BasicTagSize == 80
BasicTagFamily == "tagStandard41h12"

\* mutant: the operands of @ the other way round
GetBasicField_swapped ==
    LET optical_to_standard == Transform(<<"from_matrix">>, "world_optical", "world")
        c0 == Composition(Transform(<<"identity">>, "tag_optical", "world_optical"),
                          optical_to_standard, "get_basic_field")
        c2 == Composition(Transform(<<"make">>, "tag_optical", "world_optical"),
                          optical_to_standard, "get_basic_field")
        failed == SelectSeq(<<c0, c2>>, LAMBDA c : c.out.kind = "raise")
        out == IF failed # <<>> THEN RaisedWith(failed[1].out.exc, NoField)
               ELSE AprilTagFieldInit(BasicTagSize,
                                      <<[tag_id |-> 0, pose |-> c0.out.value],
                                        [tag_id |-> 2, pose |-> c2.out.value]>>,
                                      BasicTagFamily)
    IN  /\ comps' = IF c0.out.kind = "raise" THEN <<c0>> ELSE <<c0, c2>>
        /\ fieldCtor' = [out EXCEPT !.value = NoField]
        /\ field' = IF out.kind = "return" THEN out.value ELSE field
        /\ gc' = NoGetCorners
        /\ UNCHANGED <<robot, cam, threads, prev, loc, tagPoses, chain, ctor, dets, stack, acts, log,
                       angleCalls, angle, result>>

\* get_basic_field(): the two compositions, then the field of their results
GetBasicField ==
    LET optical_to_standard == Transform(<<"from_matrix">>, "world_optical", "world")
        c0 == Composition(optical_to_standard,
                          Transform(<<"identity">>, "tag_optical", "world_optical"),
                          "get_basic_field")
        c2 == Composition(optical_to_standard,
                          Transform(<<"make">>, "tag_optical", "world_optical"),
                          "get_basic_field")
        failed == SelectSeq(<<c0, c2>>, LAMBDA c : c.out.kind = "raise")
        out == IF failed # <<>> THEN RaisedWith(failed[1].out.exc, NoField)
               ELSE AprilTagFieldInit(BasicTagSize,
                                      <<[tag_id |-> 0, pose |-> c0.out.value],
                                        [tag_id |-> 2, pose |-> c2.out.value]>>,
                                      BasicTagFamily)
    IN  /\ comps' = IF c0.out.kind = "raise" THEN <<c0>> ELSE <<c0, c2>>
        /\ fieldCtor' = [out EXCEPT !.value = NoField]
        /\ field' = IF out.kind = "return" THEN out.value ELSE field
        /\ gc' = NoGetCorners
        /\ UNCHANGED <<robot, cam, threads, prev, loc, tagPoses, chain, ctor, dets, stack, acts, log,
                       angleCalls, angle, result>>

\* SpecCompose: transforms are composed and the basic field is built
NextCompose ==
    \/ \E A, B \in NamedTransforms : ComposeTransforms(A, B)
    \/ GetBasicField

SpecCompose == InitField /\ [][NextCompose]_vars

\* the basic field has just been built or has failed to be
BasicFieldCalled == comps # <<>> /\ comps[1].by = "get_basic_field"

----------------------------------------------------------------------------
(* core/camera.py *)

\* the focal lengths and the optical centres a caller may give
FocalValues == {0 - 1, 0, 1, 2}
CentreValues == {0, 1}
DistortionVectors == {[k \in 1..5 |-> 0], [k \in 1..5 |-> k]}

\* float(x)
Float(x) == PyFloat(x.v)

\* CameraParameters(fx=..., fy=..., ...): the generated __init__ of the
\* frozen dataclass stores what it is given
ConstructCamera(fx, fy, cx, cy, dist) ==
    /\ cam' = [made |-> TRUE, via |-> "init",
               given |-> CameraParameters(fx, fy, cx, cy, dist),
               obj |-> CameraParameters(fx, fy, cx, cy, dist),
               setattr |-> NotCalledWith(<<>>)]
    /\ UNCHANGED <<robot, comps, threads, prev, loc, tagPoses, field, fieldCtor, gc, chain, ctor,
                   dets, stack, acts, log, angleCalls, angle, result>>

\* mutant: the focal lengths are read from the first row of the matrix
FromMatrices_first_row(camera_matrix, distortion_vector) ==
    CameraParameters(Float(camera_matrix[0][0]), Float(camera_matrix[0][1]),
                     Float(camera_matrix[0][2]), Float(camera_matrix[1][2]),
                     [k \in 1..5 |-> Float(distortion_vector[k])])

\* CameraParameters.from_matrices (lines 78-88)
FromMatrices(camera_matrix, distortion_vector) ==
    CameraParameters(Float(camera_matrix[0][0]), Float(camera_matrix[1][1]),
                     Float(camera_matrix[0][2]), Float(camera_matrix[1][2]),
                     [k \in 1..5 |-> Float(distortion_vector[k])])

\* the camera matrix | fx 0 cx | 0 fy cy | 0 0 1 | as numpy gives it
CameraMatrix(fx, fy, cx, cy) ==
    [r \in 0..2 |-> [c \in 0..2 |->
        NpFloat(IF r = 0 /\ c = 0 THEN fx ELSE IF r = 1 /\ c = 1 THEN fy
                ELSE IF r = 0 /\ c = 2 THEN cx ELSE IF r = 1 /\ c = 2 THEN cy
                ELSE IF r = 2 /\ c = 2 THEN 1 ELSE 0)]]

CallFromMatrices(fx, fy, cx, cy, dist) ==
    /\ cam' = [made |-> TRUE, via |-> "from_matrices",
               given |-> CameraParameters(PyFloat(fx), PyFloat(fy), PyFloat(cx),
                                          PyFloat(cy), [k \in 1..5 |-> PyFloat(dist[k])]),
               obj |-> FromMatrices(CameraMatrix(fx, fy, cx, cy),
                                    [k \in 1..5 |-> NpFloat(dist[k])]),
               setattr |-> NotCalledWith(<<>>)]
    /\ UNCHANGED <<robot, comps, threads, prev, loc, tagPoses, field, fieldCtor, gc, chain, ctor,
                   dets, stack, acts, log, angleCalls, angle, result>>

\* camera_params.<name> = v: the frozen dataclass refuses (line 24)
SetCameraAttribute(name, v) ==
    /\ cam.made
    /\ cam' = [cam EXCEPT !.setattr = RaisedWith("FrozenInstanceError", <<>>)]
    /\ UNCHANGED <<robot, comps, threads, prev, loc, tagPoses, field, fieldCtor, gc, chain, ctor,
                   dets, stack, acts, log, angleCalls, angle, result>>

\* SpecCamera: camera parameters are made, directly and from matrices, and
\* written to
NextCamera ==
    \/ \E fx, fy \in FocalValues, cx, cy \in CentreValues, dist \in DistortionVectors :
          \/ ConstructCamera(PyFloat(fx), PyFloat(fy), PyFloat(cx), PyFloat(cy),
                             [k \in 1..5 |-> PyFloat(dist[k])])
          \/ CallFromMatrices(fx, fy, cx, cy, dist)
    \/ \E name \in {"fx", "fy"}, v \in FocalValues : SetCameraAttribute(name, PyFloat(v))

SpecCamera == InitField /\ [][NextCamera]_vars

\* C26, as stated: every CameraParameters object has positive focal lengths.
C26_FocalLengthsPositive ==
    cam.made => (cam.obj.fx.v > 0 /\ cam.obj.fy.v > 0)

\* C26, without the validation: every CameraParameters object, built
\* directly or through from_matrices, holds the values it was built with,
\* whatever their sign, as Python floats in their fields, and keeps them:
\* writing to a field fails and changes nothing.
C26_KeepsGivenValues ==
    cam.made =>
        /\ cam.obj = cam.given
        /\ cam.setattr.kind # "none" => cam.setattr.exc = "FrozenInstanceError"

C26_Witness ==
    /\ cam.made
    /\ cam.via = "from_matrices"
    /\ cam.obj.fx = PyFloat(0)
    /\ cam.obj.fy = PyFloat(0 - 1)
    /\ cam.obj.cx = PyFloat(1)
    /\ cam.setattr.kind = "raise"

----------------------------------------------------------------------------
(* Properties of solve_pnp as Multi-Tag PnP calls it *)

\* what the solver reports when it runs: failure, or one solution or more
CountedOutputs == {o \in SolverOutputs(CoarseErrs) : o.success => o.errs # <<>>}

\* SpecPnp: a Multi-Tag PnP strategy estimates; the solver reports the
\* number of its solutions as its success
InitPnp ==
    /\ field \in {AprilTagFieldInit(TagSize, d, TagFamily).value : d \in FullDicts}
    /\ fieldCtor = NotCalledWith(NoField)
    /\ gc = NoGetCorners
    /\ chain \in {c \in Chains : c[1].kind = "MultiTagPnP"}
    /\ ctor = NoCtor
    /\ angle = 0
    /\ tagPoses = NoTagPoses
    /\ InitCall

NextPnp ==
    \/ \E ds \in SeqsOf({Detection(t) : t \in TagIds}, 0, MaxDets) : Estimate(ds)
    \/ MultiTagPnP_Step(CountedOutputs)

SpecPnp == InitPnp /\ [][NextPnp]_vars

\* C27: every solve_pnp call raises EstimationError or returns a list that
\* is not empty and holds one pose per solution of the solver, in the
\* solver's order, each with that solution's error; nothing else escapes.
C27_RaisesEstimationErrorOrReturnsPoses ==
    \A n \in 1..Len(log) :
        LET sp == SolvePnp(n, log[n].out)
        IN  \/ sp.kind = "raise" /\ sp.exc = "EstimationError"
            \/ /\ sp.kind = "return"
               /\ sp.value # <<>>
               /\ Len(sp.value) = Len(log[n].out.errs)
               /\ \A k \in 1..Len(sp.value) :
                     /\ sp.value[k].error = log[n].out.errs[k]
                     /\ sp.value[k].rt[1].sol = k

----------------------------------------------------------------------------
(* Properties of the mean of Multi-Tag Special *)

\* the solves of chain[1] that returned candidates, in call order
SucceededSolves ==
    SelectSeq([n \in 1..Len(log) |-> n],
              LAMBDA n : log[n].obj = 1 /\ SolvedAt(n).kind = "return")

\* C28: a Multi-Tag Special call on two or more detections, each of whose
\* solves gave candidates or raised EstimationError and at least one of
\* which gave candidates, does not call the fallback and returns a pose made
\* of exactly the candidates selected for the tags that were solved; with
\* one such tag the pose is that tag's selected candidate.
C28_MeanOfSelectedCandidates ==
    (/\ Done
     /\ chain[1].kind = "MultiTagSpecial"
     /\ Len(dets) >= 2
     /\ Cardinality(SolvesOf(1)) = Len(dets)
     /\ \A n \in SolvesOf(1) :
          \/ SolvedAt(n) = RaisedWith("EstimationError", <<>>)
          \/ SolvedAt(n).kind = "return" /\ SolvedAt(n).value # <<>>
     /\ SucceededSolves # <<>>)
    => /\ Len(acts) = 1
       /\ result.kind = "pose"
       /\ Len(result.pose.rt) = Len(SucceededSolves)
       /\ \A k \in 1..Len(SucceededSolves) :
             LET n == SucceededSolves[k]
             IN  /\ result.pose.rt[k].prob = ProbOf(n)
                 /\ result.pose.rt[k].sol = MultiTagSpecial_select(log[n].rots, log[n].actual)
       /\ Len(SucceededSolves) = 1 =>
             result.pose.rt = SolvedAt(SucceededSolves[1]).value[
                 MultiTagSpecial_select(log[SucceededSolves[1]].rots,
                                        log[SucceededSolves[1]].actual)].rt

----------------------------------------------------------------------------
(* robot/strategies/multitag.py *)

\* two fields with the same tags at different poses
RobotFields == {"A", "B"}

\* field[tag_id] of the field named f
RobotFieldPose(f, t) == Transform(<<f, t>>, None, None)

\* _get_corners_from_pose (lines 58-65): the corners of the tag at pose
GetCornersFromPose(pose, tag_size) ==
    [j \in CornerIdx |-> [pose |-> pose.name, corner |-> j, size |-> tag_size]]

\* the loop of lines 31-37: the cache is asked by tag ID alone; a tag not
\* in it has its corners computed from the field of the call and cached
RECURSIVE CollectCorners(_, _, _, _)
CollectCorners(cache, groups, ds, f) ==
    IF ds = <<>> THEN [corners_cache |-> cache, object_corner_groups |-> groups]
    ELSE LET t == Head(ds).tag_id
             hit == {i \in 1..Len(cache) : cache[i].tag_id = t}
             corners == GetCornersFromPose(RobotFieldPose(f, t), TagSize)
         IN  IF hit # {}
             THEN CollectCorners(cache, Append(groups, cache[Least(hit)].corners),
                                 Tail(ds), f)
             ELSE CollectCorners(Append(cache, [tag_id |-> t, corners |-> corners]),
                                 Append(groups, corners), Tail(ds), f)

\* strategy.estimate_robot_pose(detections, field, camera_params,
\* camera_pose_on_robot); the pose returned stands for the inverse of
\* camera_pose_on_robot @ origin_pose_in_camera
EstimateRobotPose(ds, f, outputs) ==
    LET got == CollectCorners(robot.corners_cache, <<>>, ds, f)
        object_points == FlattenSeq(got.object_corner_groups)
    IN  \E o \in outputs :
          LET sp == SolvePnp(1, o)
              best == Least({k \in 1..Len(sp.value) :
                               \A j \in 1..Len(sp.value) :
                                  sp.value[k].error <= sp.value[j].error})
          IN  /\ robot' = [corners_cache |-> got.corners_cache,
                           called |-> TRUE, field |-> f, dets |-> ds,
                           object_corner_groups |-> got.object_corner_groups,
                           out |-> IF ds = <<>> THEN Raise("ValueError")  \* np.vstack([])
                                   ELSE IF sp.kind = "raise" THEN Raise(sp.exc)
                                   ELSE IF sp.value = <<>> THEN RetNone
                                   ELSE RetPose(sp.value[best])]
              /\ UNCHANGED <<cam, comps, threads, prev, loc, tagPoses, field, fieldCtor, gc,
                             chain, ctor, dets, stack, acts, log, angleCalls, angle, result>>

\* SpecRobot: one strategy object is called again and again, with either field
NextRobot ==
    \E ds \in SeqsOf({Detection(t) : t \in TagIds}, 0, MaxDets), f \in RobotFields :
        EstimateRobotPose(ds, f, SolverOutputs(CoarseErrs))

SpecRobot == InitField /\ [][NextRobot]_vars

\* C29: in every estimate_robot_pose call, the object points used for each
\* detection are the corners of its tag computed from the field passed to
\* that call.
C29_CornersOfTheGivenField ==
    robot.called =>
        /\ Len(robot.object_corner_groups) = Len(robot.dets)
        /\ \A k \in 1..Len(robot.dets) :
              robot.object_corner_groups[k]
                 = GetCornersFromPose(RobotFieldPose(robot.field, robot.dets[k].tag_id),
                                      TagSize)

----------------------------------------------------------------------------
(* Properties of a field without tags *)

\* C30: constructing a field from an empty dictionary returns a field of
\* length zero, without tag IDs and without frame names, whose get_corners()
\* returns an array without rows.
C30_EmptyFieldConstructs ==
    [][ConstructField(<<>>) =>
          /\ fieldCtor'.kind = "return"
          /\ Len(field'.tag_positions) = 0
          /\ GetTagIds(field') = <<>>
          /\ field'.input_space = None
          /\ field'.output_space = None
          /\ GetCorners(field', <<>>) = Returned(<<>>)]_vars

====
